---- MODULE Spec2Model ----
(***************************************************************************)
(* Model of the statistics store driver of StoryStatsWatcher_DiscordBot    *)
(* (src/src/main.rs): the cache_ready handler with its tasks_running flag, *)
(* store_replay, the dump_state loop and the live message hook, all        *)
(* sharing one Store behind a std::sync::RwLock.                           *)
(*                                                                         *)
(* The Store itself (crate::state) and the transport (serenity) are not    *)
(* part of main.rs.  Their operations are modelled from spec.md: sections  *)
(* 4.1, 4.2, 4.3 for the Store and the tracker, section 6 for transport.   *)
(***************************************************************************)
EXTENDS Integers, Sequences, FiniteSets, Bags, TLC

(* ---------------------------------------------------------------- bounds *)
\* number of cache_ready events the transport may deliver in one run
NumHandlers == 2
\* messages posted, over all channels, while the process is running
MaxPosts == 1

(* ------------------------------------------------------ program constants *)
\* get_messages_builder.after(last_message_id).limit(50)
K == 50

(* ------------------------------------------------------------ the universe *)
None == 0

\* StoryKey = (GuildId, ChannelId)
Guild == 1
StoryKeys == {<<Guild, 7>>, <<Guild, 8>>}
\* the channel whose tracker is found in the snapshot at startup
LoadedKeys == {<<Guild, 7>>}

\* high-water mark of a tracker found in the snapshot at startup
LoadedMark == 100
\* how many messages a tracked channel received while the process was down
MissedChoices == {3, K + 2}

\* the tokenizer collaborator: body of message id -> normalized words
Body(id) == IF id % 3 = 2 THEN <<"cat", "cat">> ELSE <<"dog">>

Message(story_key, id) ==
    [id |-> id, guild_id |-> story_key[1], channel_id |-> story_key[2]]
\* a direct message: message.guild_id is None
DirectMessage == [id |-> 1, guild_id |-> None, channel_id |-> 9]

(* ------------------------------------------------------------------ state *)
VARIABLES
    main_pc,         \* main: "renderer" | "load" | "running"
                     \* | "spawn_panicked" | "load_panicked"
    renderer,        \* the wordcloud worker: "unset" | "none" | "supervised"
                     \* | "stream_panicked" (a chaperone task has panicked)
    snapshot,        \* the state file at startup:
                     \* "missing" | "valid" | "corrupt"
    trackers,        \* Store: StoryKey -> ChannelTracker, tracked keys only
    lifecycle,       \* Store: "Loading" | "Replaying" | "Ready"
    write_lock,      \* RwLock<Store>: TRUE while a write guard is alive
    readers,         \* RwLock<Store>: number of read guards alive
    tasks_running,   \* Handler.tasks_running
    events,          \* number of cache_ready events delivered so far
    handlers,        \* the cache_ready invocations, a bag of records:
                     \*   pc             position in cache_ready/store_replay
                     \*   keys_with_last story_keys_with_last_message, the
                     \*                  entries the fetch loop has not consumed
                     \*   new_messages   HashMap<StoryKey, Vec<Message>>
    dump_tasks,      \* dump_state tasks: how many are at each position;
                     \* those at "locked" are past line 174, in store.dump()
    dictionary_workers, \* number of dictionary_update_worker tasks spawned
    last_posted,     \* transport: newest message id of each channel
    first_live,      \* transport: newest message id when the process started
    loaded,          \* history: each tracker as it was loaded or created
    presented,       \* history: ids handed to a tracker's update, per key
    reapplied,       \* history: a counted id was handed to update again
    counted,         \* history: bag of ids that changed a tracker, per key
    replay_counted   \* history: messages counted by the replay path, per key

vars == <<main_pc, renderer, snapshot,
          trackers, lifecycle, write_lock, readers, tasks_running, events, handlers,
          dump_tasks, dictionary_workers, last_posted, first_live, loaded,
          presented, reapplied, counted, replay_counted>>

startup_vars == <<main_pc, renderer, snapshot>>
store_vars == <<trackers, lifecycle>>
replay_vars == <<events, handlers>>
worker_vars == <<dump_tasks, dictionary_workers>>
transport_vars == <<last_posted, first_live>>
history_vars == <<loaded, presented, reapplied, counted, replay_counted>>

(* ------------------------------------------------ ChannelTracker (4.2) *)
EmptyFrequency == <<>>

NewTracker(mark) ==
    [message_count |-> 0, word_frequency |-> EmptyFrequency,
     high_water_mark |-> mark]

Increment(word_frequency, word) ==
    IF word \in DOMAIN word_frequency
    THEN [word_frequency EXCEPT ![word] = @ + 1]
    ELSE word_frequency @@ (word :> 1)

RECURSIVE AddWords(_, _)
AddWords(word_frequency, words) ==
    IF words = <<>> THEN word_frequency
    ELSE AddWords(Increment(word_frequency, Head(words)), Tail(words))

\* a tracker that forgets the high-water mark check: every call counts
update_without_dedupe(channel_data, message) ==
    [message_count |-> channel_data.message_count + 1,
     word_frequency |->
         AddWords(channel_data.word_frequency, Body(message.id)),
     high_water_mark |-> message.id]

\* a tracker that only recognises the very last message it applied
update_dedupe_last_only(channel_data, message) ==
    IF message.id = channel_data.high_water_mark
    THEN channel_data
    ELSE [message_count |-> channel_data.message_count + 1,
          word_frequency |->
              AddWords(channel_data.word_frequency, Body(message.id)),
          high_water_mark |-> message.id]

\* ChannelTracker.update: dedupe by id <= high_water_mark
update(channel_data, message) ==
    IF message.id <= channel_data.high_water_mark
    THEN channel_data
    ELSE [message_count |-> channel_data.message_count + 1,
          word_frequency |->
              AddWords(channel_data.word_frequency, Body(message.id)),
          high_water_mark |-> message.id]

RECURSIVE UpdateRange(_, _, _, _)
\* for message in messages { channel_data.update(&message) }, restricted to
\* the positions lo .. hi of the Vec.  The loop is split in halves, and the
\* tracker after the first half is bound before the second half starts, so
\* that the evaluation never nests deeper than the logarithm of the length.
UpdateRange(channel_data, msgs, lo, hi) ==
    IF lo > hi THEN channel_data
    ELSE IF lo = hi THEN update(channel_data, msgs[lo])
    ELSE LET mid == (lo + hi) \div 2
         IN  CHOOSE after \in
                 {UpdateRange(half, msgs, mid + 1, hi) :
                     half \in {UpdateRange(channel_data, msgs, lo, mid)}} :
                 TRUE

UpdateAll(channel_data, msgs) == UpdateRange(channel_data, msgs, 1, Len(msgs))

(* ----------------------------------------------------------- Store (4.1) *)
\* Store.story_keys_with_last_message: frozen copy of (key, high_water_mark)
story_keys_with_last_message(store) ==
    [k \in DOMAIN store |-> store[k].high_water_mark]

\* Store.process_message: update if tracked, silent no-op otherwise
process_message(store, story_key, message) ==
    IF story_key \in DOMAIN store
    THEN [store EXCEPT ![story_key] = update(@, message)]
    ELSE store

\* Store.finish_replay
finish_replay(state) == "Ready"

\* Store::load: the trackers of the state file; an empty Store when there is
\* no state file; an error when the file cannot be decoded
load(state_file, stored) ==
    CASE state_file = "valid" -> [ok |-> TRUE, trackers |-> stored]
      [] state_file = "missing" -> [ok |-> TRUE, trackers |-> <<>>]
      [] state_file = "corrupt" -> [ok |-> FALSE, trackers |-> <<>>]

(* ------------------------------------------------------- transport (6) *)
Max(a, b) == IF a > b THEN a ELSE b

\* channel_id.messages(after(last).limit(50)): the newest K messages with
\* id > last_message_id, oldest first
messages(story_key, newest, last_message_id) ==
    LET first == Max(last_message_id + 1, newest - K + 1)
    IN  [i \in 1 .. Max(newest - first + 1, 0) |->
            Message(story_key, first + i - 1)]

(* ---------------------------------------------------------------- history *)
Ids(msgs) == {msgs[i].id : i \in DOMAIN msgs}

\* one update call, remembering the id when the call changed the tracker
Observe(seen, message) ==
    LET after == update(seen.channel_data, message)
    IN  [channel_data |-> after,
         hits |-> IF after = seen.channel_data THEN seen.hits
                  ELSE seen.hits (+) SetToBag({message.id})]

RECURSIVE ObserveRange(_, _, _, _)
ObserveRange(seen, msgs, lo, hi) ==
    IF lo > hi THEN seen
    ELSE IF lo = hi THEN Observe(seen, msgs[lo])
    ELSE LET mid == (lo + hi) \div 2
         IN  CHOOSE after \in
                 {ObserveRange(half, msgs, mid + 1, hi) :
                     half \in {ObserveRange(seen, msgs, lo, mid)}} :
                 TRUE

\* the ids of those messages of the Vec on which update changed the tracker
Counted(channel_data, msgs) ==
    ObserveRange([channel_data |-> channel_data, hits |-> EmptyBag],
                 msgs, 1, Len(msgs)).hits

(* ------------------------------------------------------------------- Init *)
\* main has started the client: no renderer is configured and Store::load
\* has returned the trackers of the state file
Init ==
    \E missed \in [LoadedKeys -> MissedChoices] :
        /\ main_pc = "running"
        /\ renderer = "none"
        /\ snapshot = "valid"
        /\ readers = 0
        /\ trackers = [k \in LoadedKeys |-> NewTracker(LoadedMark)]
        /\ lifecycle = "Loading"
        /\ write_lock = FALSE
        /\ tasks_running = FALSE
        /\ events = 0
        /\ handlers = EmptyBag
        /\ dump_tasks = [start |-> 0, locked |-> 0, panicked |-> 0]
        /\ dictionary_workers = 0
        /\ last_posted =
               [k \in StoryKeys |->
                   IF k \in LoadedKeys THEN LoadedMark + missed[k]
                   ELSE LoadedMark]
        /\ first_live = last_posted
        /\ loaded = trackers
        /\ presented = [k \in StoryKeys |-> {}]
        /\ reapplied = FALSE
        /\ counted = [k \in StoryKeys |-> EmptyBag]
        /\ replay_counted = [k \in StoryKeys |-> 0]

(* ------------------------------------------------------------------- main *)
\* what main finds when the process starts: the state file, and how many
\* messages the channels of the state file received since it was written
Startups ==
    {[snapshot |-> "valid", missed |-> m] : m \in MissedChoices}
        \cup {[snapshot |-> s, missed |-> 0] : s \in {"missing", "corrupt"}}

\* the first line of main: nothing is started, no Store is installed
InitMain ==
    \E startup \in Startups :
        /\ main_pc = "renderer"
        /\ renderer = "unset"
        /\ snapshot = startup.snapshot
        /\ readers = 0
        /\ trackers = <<>>
        /\ lifecycle = "Loading"
        /\ write_lock = FALSE
        /\ tasks_running = FALSE
        /\ events = 0
        /\ handlers = EmptyBag
        /\ dump_tasks = [start |-> 0, locked |-> 0, panicked |-> 0]
        /\ dictionary_workers = 0
        /\ last_posted =
               [k \in StoryKeys |->
                   IF k \in LoadedKeys THEN LoadedMark + startup.missed
                   ELSE LoadedMark]
        /\ first_live = last_posted
        /\ loaded = <<>>
        /\ presented = [k \in StoryKeys |-> {}]
        /\ reapplied = FALSE
        /\ counted = [k \in StoryKeys |-> EmptyBag]
        /\ replay_counted = [k \in StoryKeys |-> 0]

\* lines 181-200, called at line 224: without wordcloud_config nothing is
\* started; otherwise the worker process is spawned and the result is
\* unwrap()ped in main itself; wordcloud_worker_chaperone then spawns the
\* two tasks that drain stdout and stderr
maybe_start_python_wordcloud_worker(wordcloud_config, spawned) ==
    /\ main_pc = "renderer"
    /\ IF ~wordcloud_config
       THEN main_pc' = "load" /\ renderer' = "none"
       ELSE IF spawned
            THEN main_pc' = "load" /\ renderer' = "supervised"
            ELSE main_pc' = "spawn_panicked" /\ UNCHANGED renderer
    /\ UNCHANGED <<snapshot, store_vars, write_lock, readers, tasks_running,
                   replay_vars, worker_vars, transport_vars, history_vars>>

\* lines 206 and 213: next_line() fails and unwrap() panics the chaperone
\* task that was reading the stream
ChaperoneFails ==
    /\ main_pc \in {"load", "running"}
    /\ renderer = "supervised"
    /\ renderer' = "stream_panicked"
    /\ UNCHANGED <<main_pc, snapshot, store_vars, write_lock, readers,
                   tasks_running, replay_vars, worker_vars, transport_vars,
                   history_vars>>

\* a main that starts with an empty Store when the state file is corrupt
LoadStore_recover_partial ==
    /\ main_pc = "load"
    /\ trackers' = load(snapshot, [k \in LoadedKeys |-> NewTracker(LoadedMark)]).trackers
    /\ loaded' = trackers'
    /\ main_pc' = "running"
    /\ UNCHANGED <<renderer, snapshot, lifecycle, write_lock, readers,
                   tasks_running, replay_vars, worker_vars, transport_vars,
                   presented, reapplied, counted, replay_counted>>

\* lines 248-262: Store::load, panic on Err, otherwise the Store is
\* inserted into the client data and the client is started
LoadStore ==
    /\ main_pc = "load"
    /\ LET store == load(snapshot, [k \in LoadedKeys |-> NewTracker(LoadedMark)])
       IN  IF store.ok
           THEN /\ trackers' = store.trackers
                /\ loaded' = store.trackers
                /\ main_pc' = "running"
           ELSE /\ main_pc' = "load_panicked"
                /\ UNCHANGED <<trackers, loaded>>
    /\ UNCHANGED <<renderer, snapshot, lifecycle, write_lock, readers,
                   tasks_running, replay_vars, worker_vars, transport_vars,
                   presented, reapplied, counted, replay_counted>>

(* ---------------------------------------------------- Handler::cache_ready *)
NoReader == readers = 0
LockFree == ~write_lock /\ NoReader

Running == BagToSet(handlers)
At(position) == {r \in Running : r.pc = position}

\* a handler that holds no locals: before store_replay, or after it
Bare(position) ==
    [pc |-> position, keys_with_last |-> <<>>, new_messages |-> <<>>]

\* the invocation r moves on and is now r2
Become(r, r2) == (handlers (-) SetToBag({r})) (+) SetToBag({r2})

Without(f, k) == [x \in DOMAIN f \ {k} |-> f[x]]

\* a handler that spawns the workers first and replays afterwards
cache_ready_spawn_first ==
    /\ main_pc = "running"
    /\ events < NumHandlers
    /\ events' = events + 1
    /\ handlers' =
           handlers (+)
           SetToBag({Bare(IF tasks_running THEN "done" ELSE "read_keys")})
    /\ dump_tasks' =
           IF tasks_running THEN dump_tasks
           ELSE [dump_tasks EXCEPT !.start = @ + 1]
    /\ UNCHANGED <<startup_vars, readers, store_vars, write_lock,
                   tasks_running, dictionary_workers, transport_vars,
                   history_vars>>

\* lines 66-69: the event arrives, tasks_running is loaded
cache_ready ==
    /\ main_pc = "running"
    /\ events < NumHandlers
    /\ events' = events + 1
    /\ handlers' =
           handlers (+)
           SetToBag({Bare(IF tasks_running THEN "done" ELSE "read_keys")})
    /\ UNCHANGED <<startup_vars, readers,
                   store_vars, write_lock, tasks_running, worker_vars,
                   transport_vars, history_vars>>

\* a store_replay that announces the replay before it reads the keys
ReadKeys_begin_replay(r) ==
    /\ r \in At("read_keys")
    /\ ~write_lock
    /\ lifecycle' = "Replaying"
    /\ handlers' =
           Become(r, [pc |-> "fetch",
                      keys_with_last |-> story_keys_with_last_message(trackers),
                      new_messages |-> <<>>])
    /\ UNCHANGED <<startup_vars, readers,
                   trackers, write_lock, tasks_running, events,
                   worker_vars, transport_vars, history_vars>>

\* a store_replay whose read guard lives on into the fetch loop
ReadKeys_keep_guard(r) ==
    /\ r \in At("read_keys")
    /\ ~write_lock
    /\ readers' = readers + 1
    /\ handlers' =
           Become(r, [pc |-> "fetch",
                      keys_with_last |-> story_keys_with_last_message(trackers),
                      new_messages |-> <<>>])
    /\ UNCHANGED <<startup_vars, store_vars, write_lock, tasks_running, events,
                   worker_vars, transport_vars, history_vars>>

\* store_replay, lines 105-117: copy (key, last message) under the read lock
ReadKeys(r) ==
    /\ r \in At("read_keys")
    /\ ~write_lock
    /\ handlers' =
           Become(r, [pc |-> "fetch",
                      keys_with_last |-> story_keys_with_last_message(trackers),
                      new_messages |-> <<>>])
    /\ UNCHANGED <<startup_vars, readers,
                   store_vars, write_lock, tasks_running, events,
                   worker_vars, transport_vars, history_vars>>

\* a fetch loop that files the backlog under the neighbouring channel
FetchMessages_wrong_key(r, story_key) ==
    /\ r \in At("fetch")
    /\ story_key \in DOMAIN r.keys_with_last
    /\ LET last_message_id == r.keys_with_last[story_key]
           msgs == messages(story_key, last_posted[story_key], last_message_id)
           other == <<story_key[1], story_key[2] + 1>>
       IN  handlers' =
               Become(r, [pc |-> "fetch",
                          keys_with_last |-> Without(r.keys_with_last, story_key),
                          new_messages |->
                              IF Len(msgs) > 0
                              THEN (other :> msgs) @@ r.new_messages
                              ELSE r.new_messages])
    /\ UNCHANGED <<startup_vars, readers, store_vars, write_lock,
                   tasks_running, events, worker_vars, transport_vars,
                   history_vars>>

\* store_replay, lines 118-132: one iteration of the fetch loop, both
\* transport calls succeed
FetchMessages(r, story_key) ==
    /\ r \in At("fetch")
    /\ story_key \in DOMAIN r.keys_with_last
    /\ LET last_message_id == r.keys_with_last[story_key]
           msgs == messages(story_key, last_posted[story_key], last_message_id)
       IN  handlers' =
               Become(r, [pc |-> "fetch",
                          keys_with_last |-> Without(r.keys_with_last, story_key),
                          new_messages |->
                              IF Len(msgs) > 0
                              THEN (story_key :> msgs) @@ r.new_messages
                              ELSE r.new_messages])
    /\ UNCHANGED <<startup_vars, readers,
                   store_vars, write_lock, tasks_running, events,
                   worker_vars, transport_vars, history_vars>>

\* store_replay, lines 120 and 127: channel_id.name(..) or
\* channel_id.messages(..) fails and unwrap() panics the handler task
FetchFails(r, story_key) ==
    /\ r \in At("fetch")
    /\ story_key \in DOMAIN r.keys_with_last
    /\ handlers' = Become(r, Bare("fetch_panicked"))
    /\ UNCHANGED <<startup_vars, readers,
                   store_vars, write_lock, tasks_running, events,
                   worker_vars, transport_vars, history_vars>>

\* store_replay, lines 133-144: the fetch loop is over, take the write lock
AcquireWrite(r) ==
    /\ r \in At("fetch")
    /\ DOMAIN r.keys_with_last = {}
    /\ LockFree
    /\ write_lock' = TRUE
    /\ handlers' = Become(r, [r EXCEPT !.pc = "apply"])
    /\ UNCHANGED <<startup_vars, readers,
                   store_vars, tasks_running, events, worker_vars,
                   transport_vars, history_vars>>

\* an apply loop that gives the write lock back after each channel
ApplyBacklog_release_between(r, story_key) ==
    /\ r \in At("apply")
    /\ story_key \in DOMAIN r.new_messages
    /\ IF story_key \in DOMAIN trackers
       THEN LET msgs == r.new_messages[story_key]
                hits == Counted(trackers[story_key], msgs)
            IN  /\ trackers' =
                       [trackers EXCEPT ![story_key] = UpdateAll(@, msgs)]
                /\ handlers' =
                       Become(r, [r EXCEPT !.new_messages =
                                               Without(@, story_key)])
                /\ presented' =
                       [presented EXCEPT ![story_key] = @ \cup Ids(msgs)]
                /\ reapplied' =
                       (reapplied \/
                        Ids(msgs) \cap BagToSet(counted[story_key]) # {})
                /\ counted' = [counted EXCEPT ![story_key] = @ (+) hits]
                /\ replay_counted' =
                       [replay_counted EXCEPT ![story_key] =
                           @ + BagCardinality(hits)]
                /\ write_lock' = FALSE
       ELSE \* get_channel_data_mut(..).unwrap() panics, the guard is dropped
            /\ handlers' = Become(r, Bare("apply_panicked"))
            /\ write_lock' = FALSE
            /\ UNCHANGED <<trackers, presented, reapplied, counted,
                           replay_counted>>
    /\ UNCHANGED <<startup_vars, readers,
                   lifecycle, tasks_running, events, worker_vars,
                   transport_vars, loaded>>

\* store_replay, lines 145-151: one iteration of the apply loop
ApplyBacklog(r, story_key) ==
    /\ r \in At("apply")
    /\ story_key \in DOMAIN r.new_messages
    /\ IF story_key \in DOMAIN trackers
       THEN LET msgs == r.new_messages[story_key]
                hits == Counted(trackers[story_key], msgs)
            IN  /\ trackers' =
                       [trackers EXCEPT ![story_key] = UpdateAll(@, msgs)]
                /\ handlers' =
                       Become(r, [r EXCEPT !.new_messages =
                                               Without(@, story_key)])
                /\ presented' =
                       [presented EXCEPT ![story_key] = @ \cup Ids(msgs)]
                /\ reapplied' =
                       (reapplied \/
                        Ids(msgs) \cap BagToSet(counted[story_key]) # {})
                /\ counted' = [counted EXCEPT ![story_key] = @ (+) hits]
                /\ replay_counted' =
                       [replay_counted EXCEPT ![story_key] =
                           @ + BagCardinality(hits)]
                /\ UNCHANGED write_lock
       ELSE \* get_channel_data_mut(..).unwrap() panics, the guard is dropped
            /\ handlers' = Become(r, Bare("apply_panicked"))
            /\ write_lock' = FALSE
            /\ UNCHANGED <<trackers, presented, reapplied, counted,
                           replay_counted>>
    /\ UNCHANGED <<startup_vars, readers,
                   lifecycle, tasks_running, events, worker_vars,
                   transport_vars, loaded>>

\* store_replay, lines 152-154: finish_replay, the write guard is dropped
FinishReplay(r) ==
    /\ r \in At("apply")
    /\ DOMAIN r.new_messages = {}
    /\ lifecycle' = finish_replay(lifecycle)
    /\ write_lock' = FALSE
    /\ handlers' = Become(r, Bare("spawn"))
    /\ UNCHANGED <<startup_vars, readers,
                   trackers, tasks_running, events, worker_vars,
                   transport_vars, history_vars>>

\* cache_ready, lines 71-80: spawn both workers, then set tasks_running
SpawnWorkers(r) ==
    /\ r \in At("spawn")
    /\ dictionary_workers' = dictionary_workers + 1
    /\ dump_tasks' = [dump_tasks EXCEPT !.start = @ + 1]
    /\ tasks_running' = TRUE
    /\ handlers' = Become(r, Bare("done"))
    /\ UNCHANGED <<startup_vars, readers,
                   store_vars, write_lock, events, transport_vars,
                   history_vars>>

(* ------------------------------------------------------------- dump_state *)
\* a loop body that copies the Store and drops the guard before the dump
DumpLock_detached ==
    /\ dump_tasks.start > 0
    /\ ~write_lock
    /\ readers' = readers
    /\ dump_tasks' = [dump_tasks EXCEPT !.start = @ - 1, !.locked = @ + 1]
    /\ UNCHANGED <<startup_vars,
                   store_vars, write_lock, tasks_running, replay_vars,
                   dictionary_workers, transport_vars, history_vars>>

\* lines 164-174: after the sleep, the loop body takes the read lock
DumpLock ==
    /\ dump_tasks.start > 0
    /\ ~write_lock
    /\ readers' = readers + 1
    /\ dump_tasks' = [dump_tasks EXCEPT !.start = @ - 1, !.locked = @ + 1]
    /\ UNCHANGED <<startup_vars,
                   store_vars, write_lock, tasks_running, replay_vars,
                   dictionary_workers, transport_vars, history_vars>>

\* lines 175-177: store.dump() returns Ok, the guard is dropped, sleep
DumpOk ==
    /\ dump_tasks.locked > 0
    /\ readers' = readers - 1
    /\ dump_tasks' = [dump_tasks EXCEPT !.locked = @ - 1, !.start = @ + 1]
    /\ UNCHANGED <<startup_vars,
                   store_vars, write_lock, tasks_running, replay_vars,
                   dictionary_workers, transport_vars, history_vars>>

\* line 175: store.dump() returns Err and unwrap() panics the task; the
\* read guard is dropped by the unwinding
DumpFails ==
    /\ dump_tasks.locked > 0
    /\ readers' = readers - 1
    /\ dump_tasks' = [dump_tasks EXCEPT !.locked = @ - 1, !.panicked = @ + 1]
    /\ UNCHANGED <<startup_vars,
                   store_vars, write_lock, tasks_running, replay_vars,
                   dictionary_workers, transport_vars, history_vars>>

(* ------------------------------------------------------ the live path *)
\* a hook that files every message under the loaded channel
story_key_ignoring_channel(message) ==
    <<message.guild_id, (CHOOSE k \in LoadedKeys : TRUE)[2]>>

\* line 310: let story_key = (server_id, message.channel_id)
story_key_of(message) == <<message.guild_id, message.channel_id>>

\* the message starts with the command prefix of line 231
Prefixed(id) == id % 3 = 0

\* lines 230-233: the framework hands a message to the normal_message hook
\* only when it is not a command invocation
normal_message(message) == ~Prefixed(message.id)

\* the messages the gateway can deliver: those posted during this run
LiveMessages ==
    UNION {{Message(k, id) : id \in first_live[k] + 1 .. last_posted[k]} :
              k \in StoryKeys}
        \cup {DirectMessage}

\* on_regular_message with update_stats_if_exist, lines 294-313
on_regular_message(message) ==
    /\ main_pc = "running"
    /\ LockFree
    /\ IF message.guild_id # None
       THEN LET story_key == story_key_of(message)
                id == message.id
            IN  /\ trackers' = process_message(trackers, story_key, message)
                /\ presented' = [presented EXCEPT ![story_key] = @ \cup {id}]
                /\ reapplied' =
                       (reapplied \/ id \in BagToSet(counted[story_key]))
                /\ counted' =
                       IF trackers' = trackers THEN counted
                       ELSE [counted EXCEPT ![story_key] = @ (+) SetToBag({id})]
       ELSE UNCHANGED <<trackers, presented, reapplied, counted>>
    /\ UNCHANGED <<startup_vars, readers,
                   lifecycle, write_lock, tasks_running, replay_vars,
                   worker_vars, transport_vars, loaded, replay_counted>>

(* ------------------------------------------------------- environment *)
RECURSIVE PostedIn(_)
\* how many messages were posted in these channels during this run
PostedIn(keys) ==
    IF keys = {} THEN 0
    ELSE LET k == CHOOSE x \in keys : TRUE
         IN  (last_posted[k] - first_live[k]) + PostedIn(keys \ {k})

\* somebody posts a message in a channel; ids grow with time
Post(story_key) ==
    /\ main_pc = "running"
    /\ PostedIn(StoryKeys) < MaxPosts
    /\ last_posted' = [last_posted EXCEPT ![story_key] = @ + 1]
    /\ UNCHANGED <<startup_vars, readers,
                   store_vars, write_lock, tasks_running, replay_vars,
                   worker_vars, first_live, history_vars>>

\* the "track this channel" command, itself the newest message of the
\* channel: the only creator of trackers
TrackChannel(story_key) ==
    /\ main_pc = "running"
    /\ story_key \notin DOMAIN trackers
    /\ LockFree
    /\ trackers' = (story_key :> NewTracker(last_posted[story_key])) @@ trackers
    /\ loaded' = (story_key :> NewTracker(last_posted[story_key])) @@ loaded
    /\ presented' = [presented EXCEPT ![story_key] = {}]
    /\ UNCHANGED <<startup_vars, readers,
                   lifecycle, write_lock, tasks_running, replay_vars,
                   worker_vars, transport_vars, reapplied, counted,
                   replay_counted>>

(* ------------------------------------------------------------------- Next *)
Next ==
    \/ cache_ready
    \/ \E r \in Running : ReadKeys(r)
    \/ \E r \in Running, k \in StoryKeys : FetchMessages(r, k)
    \/ \E r \in Running, k \in StoryKeys : FetchFails(r, k)
    \/ \E r \in Running : AcquireWrite(r)
    \/ \E r \in Running, k \in StoryKeys : ApplyBacklog(r, k)
    \/ \E r \in Running : FinishReplay(r)
    \/ \E r \in Running : SpawnWorkers(r)
    \/ DumpLock
    \/ DumpOk
    \/ DumpFails
    \/ \E message \in LiveMessages :
           normal_message(message) /\ on_regular_message(message)
    \/ \E k \in StoryKeys : Post(k)
    \/ \E k \in StoryKeys : TrackChannel(k)

Spec == Init /\ [][Next]_vars

\* the whole process, from the first line of main
NextMain ==
    \/ \E wordcloud_config \in BOOLEAN, spawned \in BOOLEAN :
           maybe_start_python_wordcloud_worker(wordcloud_config, spawned)
    \/ ChaperoneFails
    \/ LoadStore
    \/ Next

SpecMain == InitMain /\ [][NextMain]_vars

(* ============================================================ properties *)
Words == {"cat", "dog"}
Freq(word_frequency, word) ==
    IF word \in DOMAIN word_frequency THEN word_frequency[word] ELSE 0
Occurrences(word, id) ==
    Cardinality({i \in DOMAIN Body(id) : Body(id)[i] = word})

RECURSIVE OccurrencesIn(_, _, _, _)
\* occurrences of the word in the bodies of the ids of the bag in lo .. hi,
\* each id as often as the bag holds it
OccurrencesIn(word, bag, lo, hi) ==
    IF lo > hi THEN 0
    ELSE IF lo = hi THEN CopiesIn(lo, bag) * Occurrences(word, lo)
    ELSE LET mid == (lo + hi) \div 2
         IN  OccurrencesIn(word, bag, lo, mid)
                 + OccurrencesIn(word, bag, mid + 1, hi)

FirstId == LoadedMark + 1
LastId == LoadedMark + K + 2 + MaxPosts

\* the messages of a set of ids of one channel, sorted by id
SortedById(story_key, ids) ==
    [i \in 1 .. Cardinality(ids) |->
        Message(story_key,
                CHOOSE id \in ids : Cardinality({x \in ids : x <= id}) = i)]

(* C1. Merge correctness: whatever the order and the path (replay, live) in *)
(* which the messages of a channel were handed to its tracker, duplicates   *)
(* included, the tracker equals the one obtained from the tracker as loaded *)
(* by applying the same set of messages once each, sorted by id.            *)
C1_MergeCorrectness ==
    \A k \in DOMAIN trackers :
        trackers[k] = UpdateAll(loaded[k], SortedById(k, presented[k]))

(* C2. Idempotence, no double counting: no message id is counted more than  *)
(* once in a tracker (message_count and word_frequency are exactly those of *)
(* the distinct ids that changed the tracker), and handing an id that was   *)
(* counted to update again, in any later state, changes neither             *)
(* message_count nor word_frequency.                                        *)
C2_NoDoubleCounting ==
    \A k \in DOMAIN trackers :
        /\ \A id \in BagToSet(counted[k]) : CopiesIn(id, counted[k]) = 1
        /\ trackers[k].message_count =
               loaded[k].message_count + BagCardinality(counted[k])
        /\ \A w \in Words :
               Freq(trackers[k].word_frequency, w) =
                   Freq(loaded[k].word_frequency, w)
                       + OccurrencesIn(w, counted[k], FirstId, LastId)
        /\ \A id \in BagToSet(counted[k]) :
               LET once_more == update(trackers[k], Message(k, id))
               IN  /\ once_more.message_count = trackers[k].message_count
                   /\ once_more.word_frequency = trackers[k].word_frequency

\* a message that had been counted was handed to update again, and the
\* tracker has been fed by the replay path and by the live path
C2_Witness ==
    /\ reapplied
    /\ \E k \in DOMAIN trackers :
           /\ replay_counted[k] > 0
           /\ BagCardinality(counted[k]) > replay_counted[k]

(* C3. Monotonicity: from one state to the next no tracker disappears, and  *)
(* neither its high_water_mark nor its message_count decreases.             *)
C3_Monotonic ==
    [][\A k \in DOMAIN trackers :
           /\ k \in DOMAIN trackers'
           /\ trackers'[k].high_water_mark >= trackers[k].high_water_mark
           /\ trackers'[k].message_count >= trackers[k].message_count]_vars

\* a tracker whose mark and count were raised by the replay path and by
\* the live path
C3_Witness ==
    \E k \in DOMAIN trackers :
        /\ replay_counted[k] > 0
        /\ BagCardinality(counted[k]) > replay_counted[k]
        /\ trackers[k].high_water_mark > loaded[k].high_water_mark + replay_counted[k]

(* C4. Replay completeness: when store_replay applies the backlog of n <= K *)
(* messages it fetched for a channel, the tracker's message_count grows by  *)
(* exactly n and its high_water_mark becomes the largest fetched id.        *)
C4_ReplayCompleteness ==
    [][\A r \in Running, k \in StoryKeys :
           (ApplyBacklog(r, k) /\ k \in DOMAIN trackers) =>
               LET msgs == r.new_messages[k]
               IN  /\ Len(msgs) <= K
                   /\ trackers'[k].message_count =
                          trackers[k].message_count + Len(msgs)
                   /\ trackers'[k].high_water_mark = msgs[Len(msgs)].id]_vars

(* C5. Live processing only when Ready: every process_message call of the   *)
(* live path happens while lifecycle = Ready, after finish_replay.          *)
C5_LiveOnlyWhenReady ==
    [][\A message \in LiveMessages :
           (on_regular_message(message) /\ message.guild_id # None) =>
               lifecycle = "Ready"]_vars

(* C6. Replay failure isolation: when a transport call for one channel      *)
(* fails inside store_replay, the replay goes on: the invocation stays in   *)
(* the fetch loop with the backlog fetched so far and only the failed       *)
(* channel is skipped.                                                      *)
C6_ReplayFailureIsolated ==
    [][\A r \in Running, k \in StoryKeys :
           FetchFails(r, k) =>
               handlers' =
                   Become(r, [r EXCEPT !.keys_with_last = Without(@, k)])]_vars

(* C7. Dump failure is recoverable: a failed dump never terminates a        *)
(* dump_state task; every task that was spawned is still in its loop.       *)
C7_DumpFailureRecoverable ==
    /\ dump_tasks.panicked = 0
    /\ dump_tasks.start + dump_tasks.locked = dictionary_workers

(* C8. Backlog cap: in one process run the replay path counts at most K     *)
(* messages into the tracker of any one channel.                            *)
C8_BacklogCap == \A k \in StoryKeys : replay_counted[k] <= K

(* C9. Untracked isolation: a live message of a channel that has no tracker *)
(* leaves the trackers as they are, and the set of tracked keys changes     *)
(* only in a step of the track-channel command.                             *)
C9_UntrackedIsolation ==
    [][/\ \A message \in LiveMessages :
              (/\ on_regular_message(message)
               /\ message.guild_id # None
               /\ <<message.guild_id, message.channel_id>> \notin DOMAIN trackers)
                  => trackers' = trackers
       /\ DOMAIN trackers' # DOMAIN trackers =>
              \E k \in StoryKeys : TrackChannel(k)]_vars

\* a live message of a channel without tracker has been processed
C9_Witness ==
    \E k \in StoryKeys \ DOMAIN trackers : presented[k] # {}

Rank(state) ==
    CASE state = "Loading" -> 0 [] state = "Replaying" -> 1 [] state = "Ready" -> 2

C11_RendererNeverCrashesHost == main_pc # "spawn_panicked"

(* C12. Corrupt snapshot is fatal: when Store::load fails, main panics      *)
(* before a Store is installed and before the client starts, so there is    *)
(* never a handler, a replay, a processed message or a dump task; when the  *)
(* state file is missing, main goes on with an empty Store.                 *)
C12_CorruptSnapshotFatal ==
    [][/\ snapshot = "corrupt" =>
              /\ main_pc' # "running"
              /\ trackers' = <<>>
              /\ events' = 0 /\ handlers' = EmptyBag
              /\ dump_tasks' = [start |-> 0, locked |-> 0, panicked |-> 0]
              /\ \A k \in StoryKeys : presented'[k] = {}
       /\ (LoadStore /\ snapshot = "corrupt") => main_pc' = "load_panicked"
       /\ (LoadStore /\ snapshot = "missing") =>
              main_pc' = "running" /\ trackers' = <<>>]_vars

\* main has panicked on the corrupt state file
C12_Witness == snapshot = "corrupt" /\ main_pc = "load_panicked"

Dumps == dump_tasks.start + dump_tasks.locked + dump_tasks.panicked

\* the handler r is in the apply loop, past the backlog of some channel
\* and before the backlog of another one
BetweenChannels(r) ==
    /\ r \in At("apply")
    /\ DOMAIN r.new_messages # {}
    /\ \E k \in StoryKeys \ DOMAIN r.new_messages : replay_counted[k] > 0

(* C14 as claimed. store_replay gives the write lock back after the backlog *)
(* of each channel: after an iteration of the apply loop that leaves        *)
(* another channel to do, the lock is free.                                 *)
C14_LockPerChannel ==
    [][\A r \in Running, k \in StoryKeys :
           (ApplyBacklog(r, k) /\ DOMAIN r.new_messages # {k}) =>
               write_lock' = FALSE]_vars

(* C14 as amended. store_replay takes the write lock once: every iteration  *)
(* of the apply loop runs under it and leaves it held, while it is held no  *)
(* read guard exists and only the apply loop changes the trackers, and it   *)
(* is given back only by the step that calls finish_replay.                 *)
C14_LockHeldAcrossChannels ==
    [][/\ \A r \in Running, k \in StoryKeys :
              ApplyBacklog(r, k) => write_lock /\ write_lock'
       /\ (write_lock /\ write_lock') =>
              /\ readers' = 0
              /\ trackers' # trackers =>
                     \E r \in Running, k \in StoryKeys : ApplyBacklog(r, k)
       /\ (write_lock /\ ~write_lock') =>
              \E r \in Running : FinishReplay(r)]_vars

\* a replay between two channels, the write lock still held
C14_Witness == write_lock /\ \E r \in Running : BetweenChannels(r)

\* a live message of a tracked channel that no tracker has seen yet
Waiting(message) ==
    /\ message.guild_id # None
    /\ normal_message(message)
    /\ story_key_of(message) \in DOMAIN trackers
    /\ message.id \notin presented[story_key_of(message)]

C16_NoLockAcrossFetch ==
    /\ write_lock <=> At("apply") # {}
    /\ \A r \in At("apply") : CopiesIn(r, handlers) = 1
    /\ Cardinality(At("apply")) <= 1
    /\ readers = dump_tasks.locked

\* a handler is in the fetch loop with part of its backlog fetched while
\* another one holds the write lock
C16_Witness ==
    /\ write_lock
    /\ \E r \in At("fetch") :
           DOMAIN r.new_messages # {} /\ DOMAIN r.keys_with_last # {}

\* the cache_ready invocations that have entered store_replay and not left it
InReplay ==
    {r \in Running :
        r.pc \in {"read_keys", "fetch", "apply", "fetch_panicked",
                  "apply_panicked"}}

(* C17. Replay and the background loops start at most once: at most one     *)
(* cache_ready invocation ever runs store_replay, and dump_state and        *)
(* dictionary_update_worker are each spawned at most once.                  *)
C17_StartOnce ==
    /\ dictionary_workers <= 1
    /\ Dumps <= 1
    /\ BagCardinality([r \in InReplay |-> CopiesIn(r, handlers)])
           + BagCardinality([r \in At("spawn") |-> CopiesIn(r, handlers)])
           + dictionary_workers <= 1

\* the replay path, handed the message as a backlog, would count it
ReplayAccounts(message) ==
    UpdateAll(trackers[story_key_of(message)], <<message>>)
        # trackers[story_key_of(message)]

\* the live path, when the gateway delivers the message, counts it
LiveAccounts(message) ==
    /\ normal_message(message)
    /\ message.guild_id # None
    /\ process_message(trackers, story_key_of(message), message) # trackers

(* C18. Once the store is Ready, every live message of a tracked channel is *)
(* routed to process_message, whatever its kind: the live path counts it    *)
(* exactly when the replay path would have counted it.                      *)
C18_AllLiveRouted ==
    lifecycle = "Ready" =>
        \A message \in LiveMessages :
            (/\ message.guild_id # None
             /\ story_key_of(message) \in DOMAIN trackers) =>
                (LiveAccounts(message) <=> ReplayAccounts(message))

(* C19. dump_state runs only after a store_replay has returned: whenever a  *)
(* dump_state task exists, finish_replay has been called and a cache_ready  *)
(* invocation has finished; while no replay has completed there is none.    *)
C19_DumpAfterReplay ==
    Dumps > 0 => lifecycle = "Ready" /\ At("done") # {}

\* a dump is in progress; another store_replay has died in its fetch loop
C19_Witness == dump_tasks.locked > 0 /\ At("fetch_panicked") # {}

(* C20. The lookup of the apply loop never fails: every key of a fetched    *)
(* backlog has a tracker when the loop reaches it, whatever other tasks did *)
(* since the keys were read, and no invocation dies in the apply loop.      *)
C20_LookupNeverFails ==
    /\ \A r \in Running : DOMAIN r.new_messages \subseteq DOMAIN trackers
    /\ At("apply_panicked") = {}

\* a backlog was applied although a tracker was created and a live message
\* was counted after the keys had been read
C20_Witness ==
    /\ \E k \in StoryKeys : replay_counted[k] > 0
    /\ DOMAIN trackers # LoadedKeys
    /\ \E k \in StoryKeys : BagCardinality(counted[k]) > replay_counted[k]

====
